---- MODULE Spec2Model ----
(***************************************************************************)
(* A model of python-jws, src/jwt/jws.py: the registry that resolves an    *)
(* algorithm identifier to a signing algorithm (JWS.algorithms,            *)
(* JWS.set_algorithm, SigningAlgorithm.__init__), the three algorithm      *)
(* families (HMAC, RSA, ECDSA) and the JWS context (set_header,            *)
(* set_payload, sign, verify, signing_input).                              *)
(*                                                                         *)
(* Python values are modelled as follows.  A str is a sequence of          *)
(* one-character strings, a byte string is a sequence of numbers 0..255,   *)
(* a dict is a function from its keys.  A call returns Ok(v) or            *)
(* Raise(e), e the name of the exception class that leaves the call.       *)
(***************************************************************************)
EXTENDS Integers, Sequences, FiniteSets, TLC

VARIABLES ctx, hist, sig, last

vars == <<ctx, hist, sig, last>>

(***************************************************************************)
(* Results of calls, and Python's None.                                    *)
(***************************************************************************)
None == [none |-> TRUE]

Ok(v) == [kind |-> "ok", val |-> v]

Raise(e) == [kind |-> "raise", exc |-> e]

IsOk(r) == r.kind = "ok"

Raises(r, e) == r.kind = "raise" /\ r.exc = e

Range(s) == {s[i] : i \in 1..Len(s)}

(***************************************************************************)
(* Identifier strings.                                                     *)
(***************************************************************************)
LF == "\n"

\* The largest number of characters put after the digits of an identifier.
MaxTrailing == 1

Prefixes == {<<"H", "S">>, <<"R", "S">>, <<"E", "S">>, <<"X", "X">>, <<"h", "s">>}

Numbers == {<<"2", "5", "6">>, <<"3", "8", "4">>, <<"5", "1", "2">>, <<"1", "2", "8">>}

Leading == {<<>>, <<" ">>}

RECURSIVE SeqsUpTo(_, _)
SeqsUpTo(S, n) ==
    IF n = 0 THEN {<<>>}
    ELSE LET shorter == SeqsUpTo(S, n - 1)
         IN  shorter \cup {Append(s, x) : s \in shorter, x \in S}

Trailing == SeqsUpTo({LF, "7"}, MaxTrailing)

\* Every identifier string the registry is tried on.
AlgIds == {l \o p \o n \o t : l \in Leading, p \in Prefixes, n \in Numbers, t \in Trailing}

(***************************************************************************)
(* re.match(regex, algo) for the three patterns of JWS.algorithms.  A      *)
(* pattern ^XX(256|384|512)$ is the record of its literal prefix and its   *)
(* alternatives.  re.match anchors ^ at the start of the string; without   *)
(* re.MULTILINE, $ matches at the end of the string and also just before   *)
(* a newline that is the string's last character.                          *)
(***************************************************************************)
BitsGroup == {<<"2", "5", "6">>, <<"3", "8", "4">>, <<"5", "1", "2">>}

Pattern(prefix) == [prefix |-> prefix, group |-> BitsGroup]

DollarAt(s, i) == i = Len(s) + 1 \/ (i = Len(s) /\ s[i] = LF)

re_match(regex, s) ==
    LET np == Len(regex.prefix)
        ends == {e \in np + 1 .. Len(s) :
                    /\ SubSeq(s, 1, np) = regex.prefix
                    /\ SubSeq(s, np + 1, e) \in regex.group
                    /\ DollarAt(s, e + 1)}
    IN  IF Len(s) >= np /\ ends # {}
        THEN [matched |-> TRUE, group |-> SubSeq(s, np + 1, CHOOSE e \in ends : TRUE)]
        ELSE [matched |-> FALSE, group |-> <<>>]

\* JWS.algorithms, in the order set_algorithm tries them.
algorithms ==
    << [regex |-> Pattern(<<"H", "S">>), cls |-> "HMAC"],
       [regex |-> Pattern(<<"R", "S">>), cls |-> "RSA"],
       [regex |-> Pattern(<<"E", "S">>), cls |-> "ECDSA"] >>

(***************************************************************************)
(* SigningAlgorithm.__init__                                               *)
(***************************************************************************)
DigitVal(c) ==
    CASE c = "0" -> 0 [] c = "1" -> 1 [] c = "2" -> 2 [] c = "3" -> 3 [] c = "4" -> 4
      [] c = "5" -> 5 [] c = "6" -> 6 [] c = "7" -> 7 [] c = "8" -> 8 [] c = "9" -> 9

\* int(bits) of a string of decimal digits.
RECURSIVE int(_)
int(s) == IF s = <<>> THEN 0 ELSE 10 * int(SubSeq(s, 1, Len(s) - 1)) + DigitVal(s[Len(s)])

\* The class attribute supported_bits: RSA overrides the base class's tuple.
supported_bits(cls) == IF cls = "RSA" THEN <<256>> ELSE <<256, 384, 512>>

\* ', '.join(items): str.join raises TypeError at the first item that is not a
\* str.  The items are the ints of supported_bits.
str_join(items) == IF \E i \in 1..Len(items) : items[i] \in Int THEN Raise("TypeError") ELSE Ok(items)

\* getattr(hashlib, 'sha%d' % self.bits)
hasher(bits) == CASE bits = 256 -> "sha256" [] bits = 384 -> "sha384" [] bits = 512 -> "sha512"

\* cls(bits): the instance, or the exception that leaves __init__.  Building
\* the message of NotImplementedError evaluates ', '.join(self.supported_bits)
\* before the raise statement runs.
SigningAlgorithm_init(cls, bits) ==
    LET b == int(bits)
    IN  IF b \notin Range(supported_bits(cls))
        THEN LET joined == str_join(supported_bits(cls))
             IN  IF IsOk(joined) THEN Raise("NotImplementedError") ELSE joined
        ELSE Ok([cls |-> cls, bits |-> b, hasher |-> hasher(b)])

(***************************************************************************)
(* Key material.  An HMAC key is a Python 2 str (bytes) or unicode (code   *)
(* points).  An RSA or ECDSA key is one half of a key pair: the private    *)
(* key signs, the public key verifies.                                     *)
(***************************************************************************)
\* The number of key pairs.
NKeyPairs == 2

\* The number of nonces the ECDSA library may draw for one signature.
MaxNonce == 2

\* "a", the raw byte "\xff", and u"\xe9".
HmacKeys ==
    { [t |-> "str", v |-> <<97>>], [t |-> "str", v |-> <<255>>],
      [t |-> "unicode", v |-> <<233>>] }

PrivateKeys == {[t |-> "private", v |-> <<i>>] : i \in 1..NKeyPairs}

PublicKeys == {[t |-> "public", v |-> <<i>>] : i \in 1..NKeyPairs}

\* unicode(key): a unicode object is returned as it is, a str is decoded with
\* the ascii codec, which fails on a byte above 127.
py_unicode(key) ==
    IF key.t = "unicode" THEN Ok(key.v)
    ELSE IF \E i \in 1..Len(key.v) : key.v[i] > 127 THEN Raise("UnicodeDecodeError")
    ELSE Ok(key.v)

\* u.encode('utf8'), for code points below 0x800.
RECURSIVE utf8_encode(_)
utf8_encode(u) ==
    IF u = <<>> THEN <<>>
    ELSE LET c == Head(u)
         IN  (IF c < 128 THEN <<c>> ELSE <<192 + (c \div 64), 128 + (c % 64)>>)
                 \o utf8_encode(Tail(u))

(***************************************************************************)
(* utils.base64url_encode and utils.base64url_decode: base64 with the      *)
(* URL-safe alphabet and no padding.                                       *)
(***************************************************************************)
B64 ==
    << "A", "B", "C", "D", "E", "F", "G", "H", "I", "J", "K", "L", "M", "N", "O", "P",
       "Q", "R", "S", "T", "U", "V", "W", "X", "Y", "Z", "a", "b", "c", "d", "e", "f",
       "g", "h", "i", "j", "k", "l", "m", "n", "o", "p", "q", "r", "s", "t", "u", "v",
       "w", "x", "y", "z", "0", "1", "2", "3", "4", "5", "6", "7", "8", "9", "-", "_" >>

B64Char(n) == B64[n + 1]

B64Val(c) == (CHOOSE i \in 1..Len(B64) : B64[i] = c) - 1

RECURSIVE base64url_encode(_)
base64url_encode(b) ==
    IF Len(b) = 0 THEN <<>>
    ELSE IF Len(b) = 1
    THEN << B64Char(b[1] \div 4), B64Char((b[1] % 4) * 16) >>
    ELSE IF Len(b) = 2
    THEN << B64Char(b[1] \div 4), B64Char((b[1] % 4) * 16 + b[2] \div 16),
            B64Char((b[2] % 16) * 4) >>
    ELSE << B64Char(b[1] \div 4), B64Char((b[1] % 4) * 16 + b[2] \div 16),
            B64Char((b[2] % 16) * 4 + b[3] \div 64), B64Char(b[3] % 64) >>
            \o base64url_encode(SubSeq(b, 4, Len(b)))

RECURSIVE B64Bytes(_)
B64Bytes(s) ==
    IF Len(s) < 2 THEN <<>>
    ELSE LET v == [i \in 1..4 |-> IF i <= Len(s) THEN B64Val(s[i]) ELSE 0]
             b1 == v[1] * 4 + v[2] \div 16
             b2 == (v[2] % 16) * 16 + v[3] \div 4
             b3 == (v[3] % 4) * 64 + v[4]
         IN  IF Len(s) = 2 THEN <<b1>>
             ELSE IF Len(s) = 3 THEN <<b1, b2>>
             ELSE <<b1, b2, b3>> \o B64Bytes(SubSeq(s, 5, Len(s)))

\* Malformed input (a character outside the alphabet, or a length no
\* encoding has) fails with DecodeError.
base64url_decode(s) ==
    IF (\E i \in 1..Len(s) : s[i] \notin Range(B64)) \/ Len(s) % 4 = 1
    THEN Raise("DecodeError")
    ELSE Ok(B64Bytes(s))

\* utils.encode(x): the base64url of the JSON text of x, one text per value.
utils_encode(x) == [b64json |-> x]

(***************************************************************************)
(* The JWS instance: a function from the names of the attributes that      *)
(* exist to their values.  Reading an attribute that was never assigned    *)
(* raises AttributeError.                                                  *)
(***************************************************************************)
SetAttr(self, name, v) ==
    [a \in DOMAIN self \cup {name} |-> IF a = name THEN v ELSE self[a]]

HasAttr(self, name) == name \in DOMAIN self

Call(self, res) == [self |-> self, res |-> res]

\* JWS.set_algorithm: the first pattern that matches decides the class; the
\* instance is stored only when its constructor returns.
JWS_set_algorithm(self, algo) ==
    LET hits == {i \in 1..Len(algorithms) : re_match(algorithms[i].regex, algo).matched}
    IN  IF hits = {}
        THEN Call(self, Raise("NotImplementedError"))
        ELSE LET i == CHOOSE i \in hits : \A j \in hits : i <= j
                 made == SigningAlgorithm_init(algorithms[i].cls,
                                               re_match(algorithms[i].regex, algo).group)
             IN  IF ~IsOk(made) THEN Call(self, made)
                 ELSE Call(SetAttr(self, "algorithm", made.val), Ok(None))

\* JWS.signing_input
signing_input(self) ==
    IF ~HasAttr(self, "header") \/ ~HasAttr(self, "payload")
    THEN Raise("AttributeError")
    ELSE Ok(<<utils_encode(self.header), ".", utils_encode(self.payload)>>)

(***************************************************************************)
(* Headers and payloads handed to the context.                             *)
(***************************************************************************)
HS256 == <<"H", "S", "2", "5", "6">>

\* The nine identifiers of the header's alg field.
NamedIds ==
    { p \o n : p \in {<<"H", "S">>, <<"R", "S">>, <<"E", "S">>}, n \in BitsGroup }

\* The headers of the nine identifiers, and the headers Spec hands to
\* set_header: without alg, with a named identifier, with an identifier that
\* is none of the nine, and an HS256 header with one more field.
NamedHeaders == { [alg |-> a] : a \in NamedIds }

HeaderArgs ==
    { [typ |-> "JWT"], [alg |-> HS256, kid |-> "1"] }
        \cup { [alg |-> a] :
                  a \in { HS256, <<"E", "S", "2", "5", "6">>, <<"R", "S", "3", "8", "4">>,
                          <<"H", "S", "1", "2", "8">>, <<"X", "X", "2", "5", "6">> } }

\* The empty payload, and two payloads one byte apart.
Payloads == { <<>>, <<"a">>, <<"b">> }

(***************************************************************************)
(* The cryptographic primitives (hmac, PKCS#1 v1.5, ECDSA) are ideal: a    *)
(* primitive maps each query (hash, key, message, and for ECDSA the nonce  *)
(* drawn) to a byte string of the primitive's output length, no two        *)
(* queries share a byte string, and changing one byte of an output gives   *)
(* no output.  Lengths are scaled down by 16.                              *)
(***************************************************************************)
StoredHeaders ==
    { h \in HeaderArgs \cup NamedHeaders :
        "alg" \in DOMAIN h /\ IsOk(JWS_set_algorithm([a \in {"algorithm"} |-> None], h.alg).res) }

Messages ==
    { <<utils_encode(h), ".", utils_encode(p)>> : h \in StoredHeaders, p \in Payloads }

Query(prim, hash, curve, key, msg, nonce) ==
    [prim |-> prim, hash |-> hash, curve |-> curve, key |-> key, msg |-> msg, nonce |-> nonce]

\* The primitives, each with the hash (and curve) it is used with.
Schemes ==
    { <<"hmac", "sha256", "">>, <<"hmac", "sha384", "">>, <<"hmac", "sha512", "">>,
      <<"rsa", "sha256", "">>,
      <<"ecdsa", "sha256", "NIST256p">>, <<"ecdsa", "sha384", "NIST384p">>,
      <<"ecdsa", "sha512", "NIST521p">> }

\* The key of a query: the bytes of an HMAC key, or the key pair.
QueryKeys ==
    { utf8_encode(py_unicode(k).val) : k \in {k \in HmacKeys : IsOk(py_unicode(k))} }
        \cup { <<i>> : i \in 1..NKeyPairs }

RECURSIVE SetToSeq(_)
SetToSeq(S) ==
    IF S = {} THEN <<>>
    ELSE LET x == CHOOSE x \in S : TRUE IN <<x>> \o SetToSeq(S \ {x})

SchemeSeq == SetToSeq(Schemes)

QueryKeySeq == SetToSeq(QueryKeys)

MessageSeq == SetToSeq(Messages)

Rank(seq, x) == (CHOOSE i \in 1..Len(seq) : seq[i] = x) - 1

\* The number of a query: no two queries share one.
QueryNumber(q) ==
    ((Rank(SchemeSeq, <<q.prim, q.hash, q.curve>>) * Len(QueryKeySeq)
        + Rank(QueryKeySeq, q.key)) * Len(MessageSeq)
        + Rank(MessageSeq, q.msg)) * (MaxNonce + 1) + q.nonce

\* The n-byte output numbered i: the big-endian base-128 digits of i, each
\* doubled.  Every byte of an output is even, so a byte string one byte away
\* from an output is the output of no query.
RECURSIVE Output(_, _)
Output(i, n) == IF n = 0 THEN <<>> ELSE Append(Output(i \div 128, n - 1), 2 * (i % 128))

Primitive(q, n) == Output(QueryNumber(q), n)

(***************************************************************************)
(* HMAC.sign, HMAC.verify                                                  *)
(***************************************************************************)
HMAC_sign(self, msg, key) ==
    LET u == py_unicode(key)
    IN  IF ~IsOk(u) THEN u
        ELSE Ok(Primitive(Query("hmac", self.hasher, "", utf8_encode(u.val), msg, 0),
                          self.bits \div 128))

\* HMAC.verify with the hash fixed to SHA256, as RSA.verify fixes it.
HMAC_verify_sha256(self, msg, crypto, key) ==
    LET s == HMAC_sign([self EXCEPT !.hasher = "sha256"], msg, key)
    IN  IF ~IsOk(s) THEN s
        ELSE IF ~(s.val = crypto) THEN Raise("SignatureError")
        ELSE Ok(TRUE)

HMAC_verify(self, msg, crypto, key) ==
    LET s == HMAC_sign(self, msg, key)
    IN  IF ~IsOk(s) THEN s
        ELSE IF ~(s.val = crypto) THEN Raise("SignatureError")
        ELSE Ok(TRUE)

(***************************************************************************)
(* RSA.sign, RSA.verify: SHA256 whatever self.bits is.                     *)
(***************************************************************************)
RSA_sign(self, msg, key) ==
    Ok(Primitive(Query("rsa", "sha256", "", key.v, msg, 0), 4))

RSA_verify(self, msg, crypto, key) ==
    IF ~(crypto = Primitive(Query("rsa", "sha256", "", key.v, msg, 0), 4))
    THEN Raise("SignatureError")
    ELSE Ok(TRUE)

(***************************************************************************)
(* ECDSA.sign, ECDSA.verify                                                *)
(***************************************************************************)
bits_to_curve(bits) ==
    CASE bits = 256 -> "NIST256p" [] bits = 384 -> "NIST384p" [] bits = 512 -> "NIST521p"

ECDSA_sign(self, msg, key, nonce) ==
    Ok(Primitive(Query("ecdsa", self.hasher, bits_to_curve(self.bits), key.v, msg, nonce),
                 self.bits \div 64))

\* vk.verify raises BadSignatureError unless crypto is a signature of msg
\* under the key pair, whatever nonce it was made with.
ECDSA_verify(self, msg, crypto, key) ==
    IF \E n \in 1..MaxNonce :
           crypto = Primitive(Query("ecdsa", self.hasher, bits_to_curve(self.bits),
                                    key.v, msg, n), self.bits \div 64)
    THEN Ok(TRUE)
    ELSE Raise("SignatureError")

\* self.__algorithm.sign(...) and self.__algorithm.verify(...): the method of
\* the instance's class.
algorithm_sign(alg, msg, key, nonce) ==
    CASE alg.cls = "HMAC" -> HMAC_sign(alg, msg, key)
      [] alg.cls = "RSA" -> RSA_sign(alg, msg, key)
      [] alg.cls = "ECDSA" -> ECDSA_sign(alg, msg, key, nonce)

algorithm_verify(alg, msg, crypto, key) ==
    CASE alg.cls = "HMAC" -> HMAC_verify(alg, msg, crypto, key)
      [] alg.cls = "RSA" -> RSA_verify(alg, msg, crypto, key)
      [] alg.cls = "ECDSA" -> ECDSA_verify(alg, msg, crypto, key)

(***************************************************************************)
(* The methods of JWS.  Each gives the instance after the call and the     *)
(* call's result.                                                          *)
(***************************************************************************)
\* set_header reading header['alg'] without the membership test.
JWS_set_header_keyerror(self, header) ==
    IF "alg" \notin DOMAIN header
    THEN Call(self, Raise("KeyError"))
    ELSE LET a == JWS_set_algorithm(self, header.alg)
         IN  IF ~IsOk(a.res) THEN a
             ELSE Call(SetAttr(a.self, "header", header), Ok(None))

\* set_header reporting every failure of set_algorithm as InvalidHeaderError.
JWS_set_header_wrapping(self, header) ==
    IF "alg" \notin DOMAIN header
    THEN Call(self, Raise("InvalidHeaderError"))
    ELSE LET a == JWS_set_algorithm(self, header.alg)
         IN  IF ~IsOk(a.res) THEN Call(self, Raise("InvalidHeaderError"))
             ELSE Call(SetAttr(a.self, "header", header), Ok(None))

\* set_header storing the header before it resolves the algorithm.
JWS_set_header_eager(self, header) ==
    IF "alg" \notin DOMAIN header
    THEN Call(self, Raise("InvalidHeaderError"))
    ELSE LET a == JWS_set_algorithm(SetAttr(self, "header", header), header.alg)
         IN  a

JWS_set_header(self, header) ==
    IF "alg" \notin DOMAIN header
    THEN Call(self, Raise("InvalidHeaderError"))
    ELSE LET a == JWS_set_algorithm(self, header.alg)
         IN  IF ~IsOk(a.res) THEN a
             ELSE Call(SetAttr(a.self, "header", header), Ok(None))

JWS_set_payload(self, payload) == Call(SetAttr(self, "payload", payload), Ok(None))

\* sign without the test of self.__algorithm.
JWS_sign_unguarded(self, key, nonce) ==
    LET input == signing_input(self)
    IN  IF ~IsOk(input) THEN Call(self, input)
        ELSE LET crypto == algorithm_sign(self.algorithm, input.val, key, nonce)
             IN  IF ~IsOk(crypto) THEN Call(self, crypto)
                 ELSE Call(self, Ok(base64url_encode(crypto.val)))

JWS_sign(self, key, nonce) ==
    IF self.algorithm = None
    THEN Call(self, Raise("MissingAlgorithmError"))
    ELSE LET input == signing_input(self)
         IN  IF ~IsOk(input) THEN Call(self, input)
             ELSE LET crypto == algorithm_sign(self.algorithm, input.val, key, nonce)
                  IN  IF ~IsOk(crypto) THEN Call(self, crypto)
                      ELSE Call(self, Ok(base64url_encode(crypto.val)))

\* verify building the signing input before it decodes the signature.
JWS_verify_input_first(self, crypto_output, key) ==
    IF self.algorithm = None
    THEN Call(self, Raise("MissingAlgorithmError"))
    ELSE LET input == signing_input(self)
         IN  IF ~IsOk(input) THEN Call(self, input)
             ELSE LET crypto == base64url_decode(crypto_output)
                  IN  IF ~IsOk(crypto) THEN Call(self, crypto)
                      ELSE Call(self, algorithm_verify(self.algorithm, input.val, crypto.val, key))

JWS_verify(self, crypto_output, key) ==
    IF self.algorithm = None
    THEN Call(self, Raise("MissingAlgorithmError"))
    ELSE LET crypto == base64url_decode(crypto_output)
         IN  IF ~IsOk(crypto) THEN Call(self, crypto)
             ELSE LET input == signing_input(self)
                  IN  IF ~IsOk(input) THEN Call(self, input)
                      ELSE Call(self, algorithm_verify(self.algorithm, input.val, crypto.val, key))

\* JWS.__init__(header, payload): an empty dict, the default, is falsy.
JWS_init(header, payload) ==
    LET self0 == [a \in {"algorithm"} |-> None]
        h == IF DOMAIN header = {} THEN Call(self0, Ok(None)) ELSE JWS_set_header(self0, header)
    IN  IF ~IsOk(h.res) THEN h
        ELSE IF payload = <<>> THEN h
        ELSE JWS_set_payload(h.self, payload)

(***************************************************************************)
(* The state.  ctx[c] is the JWS instance c; hist[c] tells whether         *)
(* set_header was never called on it ("none"), was called and has only     *)
(* failed ("failed"), or has succeeded ("ok"); sig is the latest signature *)
(* a sign call returned, with the header, payload and key it was made      *)
(* from; last is the latest call with its arguments and its result.        *)
(***************************************************************************)
EmptyDict == [k \in {} |-> None]

Constructed(H, P) ==
    { JWS_init(h, p).self : h \in {h \in H : IsOk(JWS_init(h, <<>>).res)}, p \in P }
        \cup { JWS_init(EmptyDict, p).self : p \in P }

\* The key that verifies what key signed.
MatchingKey(key) == IF key.t = "private" THEN [t |-> "public", v |-> key.v] ELSE key

\* Keys of the kind the resolved algorithm takes.
SignKeys(self) ==
    IF self.algorithm = None THEN HmacKeys \cup PrivateKeys
    ELSE IF self.algorithm.cls = "HMAC" THEN HmacKeys
    ELSE PrivateKeys

VerifyKeys(self) ==
    IF self.algorithm = None THEN HmacKeys \cup PublicKeys
    ELSE IF self.algorithm.cls = "HMAC" THEN HmacKeys
    ELSE PublicKeys

\* The signature strings that differ from s in one byte of the signature.
OneByteOff(s) ==
    LET raw == base64url_decode(s).val
    IN  { base64url_encode([raw EXCEPT ![i] = (raw[i] + 1) % 256]) : i \in 1..Len(raw) }

\* A string that is no base64url, and one that is.
Malformed == <<"!">>

WellFormed == <<"A", "A", "A">>

\* The signature strings a caller holds: the latest signature, if any.
Held == IF sig = None THEN {WellFormed} ELSE {sig.S}

SigArgs == {Malformed} \cup Held \cup (IF sig = None THEN {} ELSE OneByteOff(sig.S))

\* The nonces the algorithm's sign may draw: only ECDSA draws one.
Nonces(self) ==
    IF self.algorithm # None /\ self.algorithm.cls = "ECDSA" THEN 1..MaxNonce ELSE {0}

\* The history of a context as its constructor leaves it: the constructor
\* calls set_header when it is given a header, and returns only if that
\* succeeds.
Born(objects) == [c \in DOMAIN objects |-> IF HasAttr(objects[c], "header") THEN "ok" ELSE "none"]

SetHeader(c, header) ==
    LET r == JWS_set_header(ctx[c], header)
    IN  /\ ctx' = [ctx EXCEPT ![c] = r.self]
        /\ hist' = [hist EXCEPT ![c] = IF IsOk(r.res) THEN "ok"
                                       ELSE IF @ = "ok" THEN "ok" ELSE "failed"]
        /\ last' = [op |-> "set_header", c |-> c, header |-> header, res |-> r.res]
        /\ UNCHANGED sig

SetPayload(c, payload) ==
    LET r == JWS_set_payload(ctx[c], payload)
    IN  /\ ctx' = [ctx EXCEPT ![c] = r.self]
        /\ last' = [op |-> "set_payload", c |-> c, payload |-> payload, res |-> r.res]
        /\ UNCHANGED <<hist, sig>>

Sign(c, key, nonce) ==
    LET r == JWS_sign(ctx[c], key, nonce)
    IN  /\ ctx' = [ctx EXCEPT ![c] = r.self]
        /\ last' = [op |-> "sign", c |-> c, key |-> key, res |-> r.res]
        /\ sig' = IF IsOk(r.res)
                  THEN [S |-> r.res.val, header |-> ctx[c].header,
                        payload |-> ctx[c].payload, key |-> key, c |-> c]
                  ELSE sig
        /\ UNCHANGED hist

Verify(c, crypto_output, key) ==
    LET r == JWS_verify(ctx[c], crypto_output, key)
    IN  /\ ctx' = [ctx EXCEPT ![c] = r.self]
        /\ last' = [op |-> "verify", c |-> c, sigarg |-> crypto_output, key |-> key,
                    res |-> r.res]
        /\ UNCHANGED <<hist, sig>>

SetAlgorithm(c, algo) ==
    LET r == JWS_set_algorithm(ctx[c], algo)
    IN  /\ ctx' = [ctx EXCEPT ![c] = r.self]
        /\ last' = [op |-> "set_algorithm", c |-> c, algo |-> algo, res |-> r.res]
        /\ UNCHANGED <<hist, sig>>

(***************************************************************************)
(* Spec: one context and every call of its four operations.                *)
(***************************************************************************)
Init ==
    /\ ctx \in [{1} -> Constructed(HeaderArgs, Payloads)]
    /\ hist = Born(ctx)
    /\ sig = None
    /\ last = [op |-> "init"]

Next ==
    \/ \E c \in DOMAIN ctx, h \in HeaderArgs : SetHeader(c, h)
    \/ \E c \in DOMAIN ctx, p \in Payloads : SetPayload(c, p)
    \/ \E c \in DOMAIN ctx : \E k \in SignKeys(ctx[c]), n \in Nonces(ctx[c]) : Sign(c, k, n)
    \/ \E c \in DOMAIN ctx : \E s \in SigArgs, k \in VerifyKeys(ctx[c]) : Verify(c, s, k)

Spec == Init /\ [][Next]_vars

(***************************************************************************)
(* SpecTwo: two contexts, each constructed with the header of one of the   *)
(* nine identifiers and given a payload, that sign and verify.             *)
(***************************************************************************)
InitTwo ==
    /\ ctx \in [{1, 2} -> { JWS_set_payload(o, p).self :
                              o \in Constructed(NamedHeaders, {<<>>}) \ Constructed({}, {<<>>}),
                              p \in {<<>>, <<"a">>} }]
    /\ hist = Born(ctx)
    /\ sig = None
    /\ last = [op |-> "init"]

NextTwo ==
    \/ \E c \in DOMAIN ctx : \E k \in SignKeys(ctx[c]), n \in Nonces(ctx[c]) : Sign(c, k, n)
    \/ \E c \in DOMAIN ctx : \E s \in Held, k \in VerifyKeys(ctx[c]) : Verify(c, s, k)

SpecTwo == InitTwo /\ [][NextTwo]_vars

(***************************************************************************)
(* SpecResolve: set_algorithm on every identifier string.                  *)
(***************************************************************************)
InitResolve ==
    /\ ctx \in [{1} -> Constructed({}, {<<>>})]
    /\ hist = Born(ctx)
    /\ sig = None
    /\ last = [op |-> "init"]

NextResolve == \E c \in DOMAIN ctx, algo \in AlgIds : SetAlgorithm(c, algo)

SpecResolve == InitResolve /\ [][NextResolve]_vars

(***************************************************************************)
(* Properties.  The exception classes stand for the error kinds:           *)
(* MissingAlgorithmError, InvalidHeaderError, SignatureError and           *)
(* DecodeError for the kinds of those names, and NotImplementedError, the  *)
(* error set_algorithm and SigningAlgorithm.__init__ raise, for            *)
(* UnsupportedAlgorithm.                                                   *)
(***************************************************************************)
Self == ctx[last.c]

\* The algorithm an identifier names: the family of its prefix at the bit
\* depth of its number, and none when it is not one of the nine.
NamedAlgorithm(a) ==
    IF a \notin NamedIds THEN None
    ELSE LET prefix == SubSeq(a, 1, 2)
             bits == CASE SubSeq(a, 3, 5) = <<"2", "5", "6">> -> 256
                       [] SubSeq(a, 3, 5) = <<"3", "8", "4">> -> 384
                       [] SubSeq(a, 3, 5) = <<"5", "1", "2">> -> 512
         IN  [cls |-> CASE prefix = <<"H", "S">> -> "HMAC"
                        [] prefix = <<"R", "S">> -> "RSA"
                        [] prefix = <<"E", "S">> -> "ECDSA",
              bits |-> bits,
              hasher |-> CASE bits = 256 -> "sha256" [] bits = 384 -> "sha384"
                           [] bits = 512 -> "sha512"]

C2_PayloadOptional ==
    ( /\ last.op = "sign"
      /\ hist[last.c] = "ok"
      /\ ~HasAttr(Self, "payload")
      /\ last.key \in {[t |-> "str", v |-> <<97>>]} \cup PrivateKeys )
        => IsOk(last.res)

\* C3: set_header on a header without alg fails with InvalidHeaderError;
\* set_header on a header whose alg is HS256 succeeds, stores the header and
\* resolves HMAC at 256 bits; a sign call on a context holding such a header
\* does not fail with MissingAlgorithmError.
C3_SetHeader ==
    /\ (last.op = "set_header" /\ "alg" \notin DOMAIN last.header)
          => Raises(last.res, "InvalidHeaderError")
    /\ (last.op = "set_header" /\ "alg" \in DOMAIN last.header /\ last.header.alg = HS256)
          => /\ IsOk(last.res)
             /\ HasAttr(Self, "header") /\ Self.header = last.header
             /\ Self.algorithm = [cls |-> "HMAC", bits |-> 256, hasher |-> "sha256"]
    /\ (last.op = "sign" /\ HasAttr(Self, "header") /\ Self.header.alg = HS256)
          => ~Raises(last.res, "MissingAlgorithmError")

\* A context whose set_header calls had only failed accepts an HS256 header.
C3_Witness ==
    /\ last.op = "set_header"
    /\ last.header = [alg |-> HS256]
    /\ IsOk(last.res)
    /\ Self.algorithm.cls = "HMAC"
    /\ ~HasAttr(Self, "payload")

\* An identifier no pattern of the registry matches: none of the nine, and
\* not ending in a newline.
Unrecognized(a) == a \notin NamedIds /\ (a = <<>> \/ a[Len(a)] # LF)

C5_RsaUnsupportedBits ==
    (last.op = "set_algorithm" /\ last.algo \in { <<"R", "S", "3", "8", "4">>,
                                                  <<"R", "S", "5", "1", "2">> })
        => Raises(last.res, "NotImplementedError")

\* C6: an identifier resolves only if it is exactly one of the nine, and then
\* to the family of its prefix at the bit depth of its number.
C6_ExactMatch ==
    (last.op = "set_algorithm" /\ IsOk(last.res))
        => /\ last.algo \in NamedIds
           /\ Self.algorithm = NamedAlgorithm(last.algo)

\* C7: a verify call given the latest signature S, on a context (the signing
\* one or another) that holds the header and the payload S was made from,
\* with the key that matches the signing key, succeeds.
C7_RoundTrip ==
    ( /\ last.op = "verify"
      /\ sig # None
      /\ last.sigarg = sig.S
      /\ Self.header = sig.header
      /\ Self.payload = sig.payload
      /\ last.key = MatchingKey(sig.key) )
        => IsOk(last.res)

\* An ES384 signature made on one context verifies on the other.
C7_Witness ==
    /\ last.op = "verify"
    /\ sig # None
    /\ last.c # sig.c
    /\ last.sigarg = sig.S
    /\ sig.header.alg = <<"E", "S", "3", "8", "4">>
    /\ sig.payload = <<"a">>
    /\ last.key = MatchingKey(sig.key)
    /\ IsOk(last.res)

\* One byte of payload p was changed to give q.
OneByteChanged(p, q) ==
    Len(p) = Len(q) /\ Cardinality({i \in 1..Len(p) : p[i] # q[i]}) = 1

\* C8: for the latest signature S, a verify call on a context holding the
\* header S was made from fails with SignatureError when the key is not the
\* one that matches the signing key, when one byte of S was changed, or when
\* one byte of the payload was changed.
C8_TamperedSignatureError ==
    ( /\ last.op = "verify"
      /\ sig # None
      /\ HasAttr(Self, "header") /\ Self.header = sig.header
      /\ HasAttr(Self, "payload")
      /\ \/ /\ last.key # MatchingKey(sig.key)
            /\ last.sigarg = sig.S
            /\ Self.payload = sig.payload
         \/ /\ last.key = MatchingKey(sig.key)
            /\ last.sigarg \in OneByteOff(sig.S)
            /\ Self.payload = sig.payload
         \/ /\ last.key = MatchingKey(sig.key)
            /\ last.sigarg = sig.S
            /\ OneByteChanged(sig.payload, Self.payload) )
        => Raises(last.res, "SignatureError")

\* C9: a verify call on a context without a resolved algorithm fails with
\* MissingAlgorithmError whatever the signature string is; on a context with
\* a resolved algorithm, a signature string that is no base64url fails with
\* DecodeError, whether or not the signing input can be built.
C9_VerifyOrder ==
    last.op = "verify"
        => /\ Self.algorithm = None => Raises(last.res, "MissingAlgorithmError")
           /\ (Self.algorithm # None /\ ~IsOk(base64url_decode(last.sigarg)))
                 => Raises(last.res, "DecodeError")

\* A malformed signature string on a context that has an algorithm and no
\* payload, so that building the signing input would fail.
C9_Witness ==
    /\ last.op = "verify"
    /\ last.sigarg = Malformed
    /\ Self.algorithm # None
    /\ ~HasAttr(Self, "payload")
    /\ Raises(last.res, "DecodeError")

\* The resolved algorithm of every context is the one the alg of its stored
\* header names, and there is none while no header is stored.
AlgMatchesHeader ==
    \A c \in DOMAIN ctx :
        IF HasAttr(ctx[c], "header")
        THEN ctx[c].algorithm = NamedAlgorithm(ctx[c].header.alg)
        ELSE ctx[c].algorithm = None

\* C10: a set_header call that fails leaves the stored header, the stored
\* payload and the resolved algorithm as they were, and in every state the
\* resolved algorithm is the one named by the alg of the stored header.
C10_FailedSetHeaderAtomic ==
    /\ []AlgMatchesHeader
    /\ [][(last'.op = "set_header" /\ ~IsOk(last'.res)) => ctx' = ctx]_vars

\* A set_header call fails at the bit depth on a context that holds an ES256
\* header and a payload.
C10_Witness ==
    /\ last.op = "set_header"
    /\ last.header = [alg |-> <<"R", "S", "3", "8", "4">>]
    /\ ~IsOk(last.res)
    /\ HasAttr(Self, "header") /\ Self.header = [alg |-> <<"E", "S", "2", "5", "6">>]
    /\ HasAttr(Self, "payload")
    /\ Self.algorithm.cls = "ECDSA"

====
